---- MODULE Spec2Model ----
(***************************************************************************)
(* Model of dwl::simulation::PreviewLocomotion, the multi-phase preview    *)
(* engine (src/dwl/src/simulation/PreviewLocomotion.cpp).                  *)
(*                                                                         *)
(* Time is counted in integer ticks; the tunable sample_time_ is 2 ticks,  *)
(* so that a duration can be below it (1), equal to it (2), above it and   *)
(* not a multiple (3) or a multiple of it (4).  Vectors keep two           *)
(* coordinates, one planar (x) and the vertical one (z), as integers.      *)
(*                                                                         *)
(* Two engine instances run side by side on the same arguments: instance 1 *)
(* lives through every call, instance 2 is a freshly loaded engine at the  *)
(* start of every call and runs as long as instance 1 does.  The claims about one engine read instance 1; the  *)
(* determinism and leak claims compare the two.                            *)
(***************************************************************************)
EXTENDS Integers, Sequences, FiniteSets, TLC

\* ---------------------------------------------------------------- bounds
\* the longest control sequence tried
MaxPhases == 2
\* the number of calls made one after the other on one engine
MaxCalls == 2

\* ------------------------------------------------------------- constants
\* sample_time_, in ticks (tunable, PreviewLocomotion::setSampleTime)
sample_time_ == 2
\* gravity_, chosen even so that 0.5 * gravity_ is an integer
gravity_ == 2
\* step_height_ (tunable, PreviewLocomotion::setStepHeight)
step_height_ == 1

STANCE == "STANCE"
FLIGHT == "FLIGHT"

\* feet_names_ / num_feet_ as read from the robot model
feet_names_ == {"LF", "RF"}

Instances == {1, 2}

\* ------------------------------------------------------------ vectors
Vec(x, z) == [x |-> x, z |-> z]
Zero == Vec(0, 0)
VAdd(a, b) == Vec(a.x + b.x, a.z + b.z)
VSub(a, b) == Vec(a.x - b.x, a.z - b.z)
VScale(c, a) == Vec(c * a.x, c * a.z)

\* the empty std::map
EmptyMap == [f \in {} |-> Zero]

\* the element of a one-element set; { F(x) : x \in {v} } computes v once
\* for all its uses in F
Only(S) == CHOOSE x \in S : TRUE

\* frame_tf_.fromBaseToWorldFrame(v, rpy): the orientation is a number of
\* half turns about the vertical axis
fromBaseToWorldFrame(v, rpy) == IF rpy % 2 = 0 THEN v ELSE Vec(0 - v.x, v.z)

\* frame_tf_.fromWorldToBaseFrame(v, rpy): the inverse rotation
fromWorldToBaseFrame(v, rpy) == IF rpy % 2 = 0 THEN v ELSE Vec(0 - v.x, v.z)

\* stance_posture_: nominal foot positions in the CoM frame
stance_posture_ == [f \in feet_names_ |->
                      IF f = "LF" THEN Vec(1, -3) ELSE Vec(-1, -3)]

\* --------------------------------------------------- reduced-body state
\* a default-constructed ReducedBodyState
DefaultState ==
  [time |-> 0, com_pos |-> Zero, com_vel |-> Zero, com_acc |-> Zero,
   angular_pos |-> 0, cop |-> 0,
   support_region |-> EmptyMap,
   foot_pos |-> EmptyMap, foot_vel |-> EmptyMap, foot_acc |-> EmptyMap]

\* ------------------------------------------------------ CartTableModel
\* the coefficients cached by initResponse; a fresh model holds zeros
DefaultCart == [t0 |-> 0, x0 |-> 0, v0 |-> 0, z0 |-> 0, cop |-> 0]

\* cart_table_.getPendulumHeight()
getPendulumHeight == 3

\* cart_table_.initResponse(state, params)
initResponse(state, cop_shift) ==
  [t0 |-> state.time, x0 |-> state.com_pos.x, v0 |-> state.com_vel.x,
   z0 |-> state.com_pos.z, cop |-> state.cop + cop_shift]

\* cart_table_.computeResponse(state, time): the cached closed form at an
\* absolute time; the horizontal acceleration is (x0 - cop), the height is
\* held.  Everything else of the state is left as it was.
computeResponse(cart, state, time) ==
  LET dt == time - cart.t0
      a == cart.x0 - cart.cop
  IN [state EXCEPT
        !.time = time,
        !.com_pos = Vec(cart.x0 + cart.v0 * dt + a * dt * dt, cart.z0),
        !.com_vel = Vec(cart.v0 + 2 * a * dt, 0),
        !.com_acc = Vec(2 * a, 0),
        !.cop = cart.cop]

\* cart_table_.computeSystemEnergy(energy, state, params)
computeSystemEnergy(state, duration, cop_shift) ==
  LET a == state.com_pos.x - (state.cop + cop_shift)
  IN Vec((a * a + state.com_vel.x * state.com_vel.x) * duration,
         state.com_pos.z * duration)

\* ----------------------------------------------------- SwingGenerator
\* feet_spline_generator_[name].setParameters(t0, p0, p1, {duration, height})
setParameters(t0, p0, p1, duration, height) ==
  [t0 |-> t0, p0 |-> p0, p1 |-> p1, duration |-> duration, height |-> height]

\* feet_spline_generator_[name].generateTrajectory(pos, vel, acc, time):
\* the boundary conditions hold at both ends, the apex is lifted in between
generateTrajectory(gen, time) ==
  IF time <= gen.t0
    THEN [pos |-> gen.p0, vel |-> Zero, acc |-> Zero]
    ELSE IF time >= gen.t0 + gen.duration
      THEN [pos |-> gen.p1, vel |-> Zero, acc |-> Zero]
      ELSE [pos |-> Vec(gen.p0.x +
                          ((gen.p1.x - gen.p0.x) * (time - gen.t0))
                             \div gen.duration,
                        gen.p0.z + gen.height),
            vel |-> VSub(gen.p1, gen.p0),
            acc |-> Zero]

\* ------------------------------------------------------- TerrainMap
\* terrain_.getTerrainHeight(xy)
getTerrainHeight(x) == x % 2

\* ----------------------------------------------------- PreviewParams
\* phase.isSwingFoot(name)
isSwingFoot(params, name) == name \in params.feet

\* phase.getFootShift(name)
getFootShift(params, name) == params.foot_shift[name]

\* -------------------------------------------------- engine operations
\* PreviewLocomotion::initSwing(state, params); returns the engine
initSwing(e, state, params) ==
  LET terminal_state ==
        computeResponse(e.cart_table_, DefaultState,
                        state.time + params.duration)
      swing_shift ==
        [name \in params.feet |->
           LET stance == stance_posture_[name]
               footshift_x == getFootShift(params, name)
               foothold ==
                 VAdd(terminal_state.com_pos,
                      fromBaseToWorldFrame(
                        VAdd(stance, Vec(footshift_x, 0)),
                        terminal_state.angular_pos))
           IN IF e.terrain_
                THEN Vec(footshift_x,
                         getTerrainHeight(foothold.x) -
                           (terminal_state.com_pos.z + stance.z))
                ELSE LET comz_shift == terminal_state.com_pos.z -
                                         e.actual_state_.com_pos.z
                         footshift_z == 0 - (getPendulumHeight + stance.z)
                     IN Vec(footshift_x, footshift_z - comz_shift)]
      swinging == (DOMAIN state.foot_pos) \cap (DOMAIN swing_shift)
  IN [e EXCEPT
        !.phase_state_ = state,
        !.swing_params_ = [duration |-> params.duration,
                           feet_shift |-> swing_shift],
        !.feet_spline_generator_ =
           [name \in swinging |->
              setParameters(state.time,
                            state.foot_pos[name],
                            VAdd(stance_posture_[name], swing_shift[name]),
                            params.duration,
                            step_height_)],
        !.nswing = @ + 1]

\* PreviewLocomotion::generateSwing(state, time); returns the state
generateSwing(e, state, time) ==
  LET names == DOMAIN e.phase_state_.foot_pos
      swings(name) == name \in DOMAIN e.swing_params_.feet_shift
      \* operator[] creates a default generator when none was set
      gen(name) ==
        IF name \in DOMAIN e.feet_spline_generator_
          THEN e.feet_spline_generator_[name]
          ELSE setParameters(0, Zero, Zero, 0, 0)
      com_disp == VSub(state.com_pos, e.phase_state_.com_pos)
      NewPos(name) ==
        IF swings(name)
          THEN generateTrajectory(gen(name), time).pos
          ELSE VSub(e.phase_state_.foot_pos[name],
                    fromWorldToBaseFrame(com_disp, state.angular_pos))
      NewVel(name) ==
        IF swings(name)
          THEN generateTrajectory(gen(name), time).vel
          ELSE fromWorldToBaseFrame(VScale(-1, state.com_vel),
                                    state.angular_pos)
      NewAcc(name) ==
        IF swings(name)
          THEN generateTrajectory(gen(name), time).acc
          ELSE fromWorldToBaseFrame(VScale(-1, state.com_acc),
                                    state.angular_pos)
      Upd(m, F(_)) ==
        [f \in (DOMAIN m) \cup names |-> IF f \in names THEN F(f) ELSE m[f]]
  IN [state EXCEPT
        !.foot_pos = Upd(@, NewPos),
        !.foot_vel = Upd(@, NewVel),
        !.foot_acc = Upd(@, NewAcc)]

\* SampleOffset without the pin of the last sample to the duration
SampleOffset_Mutant(params, k, num_samples) == sample_time_ * (k + 1)

\* the time of sample k of a phase (both previews)
SampleOffset(params, k, num_samples) ==
  IF k = num_samples THEN params.duration ELSE sample_time_ * (k + 1)

\* the sampling loop of stancePreview from index k on: current_state is
\* carried from one sample to the next
RECURSIVE StanceSamples(_, _, _, _, _, _, _)
StanceSamples(e, state, params, full, current_state, k, num_samples) ==
  IF k > num_samples
    THEN << >>
    ELSE LET time == state.time + SampleOffset(params, k, num_samples)
             response ==
               computeResponse(e.cart_table_,
                               [current_state EXCEPT !.time = time], time)
         IN Only({ << sample >> \o
                   StanceSamples(e, state, params, full, sample, k + 1,
                                 num_samples) :
                   sample \in { IF full
                                  THEN Only({ generateSwing(e, r, r.time) :
                                              r \in {response} })
                                  ELSE response } })

\* PreviewLocomotion::stancePreview(trajectory, state, params, full);
\* returns the engine, the phase trajectory, the size it was resized to and
\* the indices written
stancePreview(e, state, params, full) ==
  IF full /\ params.duration < sample_time_
    THEN [e |-> e, trajectory |-> << >>, size |-> 0, written |-> {}]
    ELSE
      LET e1 == [e EXCEPT
                   !.cart_table_ = initResponse(state, params.cop_shift)]
          num_samples == params.duration \div sample_time_
          idx == IF full THEN 0 ELSE num_samples
          size == IF full THEN num_samples + 1 ELSE 1
      IN Only({ [e |-> IF full
                         THEN [e2 EXCEPT
                                 !.nswing = @ + (num_samples + 1 - idx)]
                         ELSE e2,
                 trajectory |->
                   SubSeq(StanceSamples(e2, state, params, full, state, idx,
                                        num_samples),
                          1, size),
                 size |-> size,
                 written |-> {k - idx : k \in idx .. num_samples}] :
                e2 \in { IF full
                           THEN Only({ initSwing(c, state, params) :
                                       c \in {e1} })
                           ELSE e1 } })

\* the CoM motion without the term of the initial velocity
ProjectileEoM_Mutant(state, time) ==
  [DefaultState EXCEPT
     !.time = state.time + time,
     !.com_pos = Vec(state.com_pos.x,
                     state.com_pos.z - (gravity_ \div 2) * time * time),
     !.com_vel = Vec(state.com_vel.x, state.com_vel.z - gravity_ * time),
     !.com_acc = Vec(0, 0 - gravity_)]

\* flightPreview, the sample at offset time of a phase started in state: a
\* default-constructed state whose CoM follows the projectile EoM with
\* gravity_vec = (0, -gravity_)
ProjectileEoM(state, time) ==
  [DefaultState EXCEPT
     !.time = state.time + time,
     !.com_pos = Vec(state.com_pos.x + state.com_vel.x * time,
                     state.com_pos.z + state.com_vel.z * time
                       - (gravity_ \div 2) * time * time),
     !.com_vel = Vec(state.com_vel.x, state.com_vel.z - gravity_ * time),
     !.com_acc = Vec(0, 0 - gravity_)]

\* the sampling loop of flightPreview: every sample starts from a
\* default-constructed state
FlightSamples(e, state, params, full, idx, num_samples) ==
  [i \in 1 .. (num_samples + 1 - idx) |->
     LET k == idx + i - 1
         time == SampleOffset(params, k, num_samples)
         current_state == ProjectileEoM(state, time)
     IN IF full
          THEN Only({ generateSwing(e, c, c.time) : c \in {current_state} })
          ELSE current_state]

\* PreviewLocomotion::flightPreview(trajectory, state, params, full)
flightPreview(e, state, params, full) ==
  IF full /\ params.duration < sample_time_
    THEN [e |-> e, trajectory |-> << >>, size |-> 0, written |-> {}]
    ELSE
      LET num_samples == params.duration \div sample_time_
          idx == IF full THEN 0 ELSE num_samples
          size == IF full THEN num_samples ELSE 1
      IN Only({ [e |-> IF full
                         THEN [e2 EXCEPT
                                 !.nswing = @ + (num_samples + 1 - idx)]
                         ELSE e2,
                 trajectory |->
                   SubSeq(FlightSamples(e2, state, params, full, idx,
                                        num_samples),
                          1, size),
                 size |-> size,
                 written |-> {k - idx : k \in idx .. num_samples}] :
                e2 \in { IF full THEN initSwing(e, state, params) ELSE e } })

\* ------------------------------------------------------------- inputs
\* the durations tried: below sample_time_, equal to it, above it without
\* being a multiple, and a multiple of it
Durations ==
  {sample_time_ - 1, sample_time_, sample_time_ + 1, 2 * sample_time_}

\* the planar footstep shifts and the CoP shifts tried
FootShifts == {1}
CopShifts == {1}

\* the PreviewParams over the given durations and swing sets; every foot
\* that swings gets a footstep shift, a STANCE phase gets a CoP shift
Params(durations, swings) ==
  { [type |-> t, duration |-> d, cop_shift |-> c, head_acc |-> 0,
     feet |-> sw, foot_shift |-> [f \in sw |-> sh]] :
      t \in {STANCE}, d \in durations, sw \in swings,
      sh \in FootShifts, c \in CopShifts }
  \cup
  { [type |-> t, duration |-> d, cop_shift |-> 0, head_acc |-> 0,
     feet |-> sw, foot_shift |-> [f \in sw |-> sh]] :
      t \in {FLIGHT}, d \in durations, sw \in swings, sh \in FootShifts }

\* the non-empty PreviewControl of at most n phases over a set of params
Controls(P, n) ==
  UNION { [1 .. len -> P] : len \in 1 .. n }

\* an initial ReducedBodyState standing in the nominal posture, with the
\* given feet in support
StartState(support) ==
  [DefaultState EXCEPT
     !.com_pos = Vec(0, getPendulumHeight),
     !.support_region =
        [f \in support |->
           VAdd(Vec(0, getPendulumHeight), stance_posture_[f])],
     !.foot_pos = stance_posture_,
     !.foot_vel = [f \in feet_names_ |-> Zero],
     !.foot_acc = [f \in feet_names_ |-> Zero]]

\* the arguments of a call on a loaded engine
RichParams == Params(Durations, {{}, {"LF"}, feet_names_})
RichStates == { StartState(s) : s \in {feet_names_, feet_names_ \ {"LF"}} }

\* the arguments tried when calls follow one another on one engine
SmallParams == Params({sample_time_ + 1}, {{}, {"LF"}})
SmallStates == { StartState(feet_names_) }

\* ----------------------------------------------------- whole-body state
\* a default-constructed WholeBodyState; contact holds the conditions set
\* by setContactCondition, contact_eff the contact wrenches
DefaultWholeBodyState ==
  [time |-> 0, base_pos |-> Zero, base_vel |-> Zero, base_acc |-> Zero,
   base_rpy |-> 0,
   contact_pos |-> EmptyMap, contact_vel |-> EmptyMap,
   contact_acc |-> EmptyMap, contact |-> EmptyMap, contact_eff |-> EmptyMap,
   joint_pos |-> << >>, joint_vel |-> << >>, joint_acc |-> << >>,
   joint_eff |-> << >>]

\* force_threshold_, as the constructor leaves it
force_threshold_ == 0

\* m with the entries of upd written over it (map[name] = value for each)
MapWrite(m, upd) ==
  [name \in (DOMAIN m) \cup (DOMAIN upd) |->
     IF name \in DOMAIN upd THEN upd[name] ELSE m[name]]

\* kinematics_.computeInverseKinematics(joint_pos, feet_pos)
computeInverseKinematics(feet_pos) == << "ik", feet_pos >>

\* kinematics_.computeJointVelocity(joint_vel, joint_pos, contact_vel, feet)
computeJointVelocity(joint_pos, contact_vel) ==
  << "vel", joint_pos, contact_vel >>

\* kinematics_.computeJoinAcceleration(joint_acc, joint_pos, joint_vel,
\* contact_vel, feet)
computeJoinAcceleration(joint_pos, joint_vel, contact_vel) ==
  << "acc", joint_pos, joint_vel, contact_vel >>

\* system_.getSystemCoM(base_pos, joint_pos)
getSystemCoM(base_pos, joint_pos) == VAdd(base_pos, Vec(0, 1))

\* system_.getSystemCoMRate(base_pos, joint_pos, base_vel, joint_vel)
getSystemCoMRate(base_pos, joint_pos, base_vel, joint_vel) == base_vel

\* dynamics_.getActiveContacts(active_contacts, contact_eff, threshold)
getActiveContacts(contact_eff, threshold) ==
  { name \in DOMAIN contact_eff : contact_eff[name] > threshold }

\* dynamics_.computeCenterOfPressure(cop_B, contact_eff, contact_pos, feet)
computeCenterOfPressure(contact_eff, contact_pos, feet) ==
  IF \E name \in feet :
       name \in DOMAIN contact_eff /\ name \in DOMAIN contact_pos
         /\ contact_eff[name] > 0
    THEN contact_pos[CHOOSE name \in feet :
                       name \in DOMAIN contact_eff
                         /\ name \in DOMAIN contact_pos
                         /\ contact_eff[name] > 0]
    ELSE Zero

\* the whole-body states handed to fromWholeBodyState: the base above the
\* origin and the given feet loaded
WholeState(active) ==
  [DefaultWholeBodyState EXCEPT
     !.time = 1,
     !.base_pos = Vec(1, 2),
     !.base_vel = Vec(1, 0),
     !.contact_pos = stance_posture_,
     !.contact_vel = [f \in feet_names_ |-> Zero],
     !.contact_acc = [f \in feet_names_ |-> Zero],
     !.contact_eff = [f \in feet_names_ |-> IF f \in active THEN 1 ELSE 0]]

\* ------------------------------------------------- FloatingBaseSystem
\* the robot of the FloatingBaseSystem: a trunk on one virtual floating-base
\* joint, a leg of two joints ending in a fixed foot, and an arm of one
\* joint. rbd_model.GetBodyId(body_name):
GetBodyId ==
  [trunk |-> 1, thigh |-> 2, shank |-> 3, arm |-> 4, foot |-> 5]

\* rbd_model.IsFixedBodyId(body_id)
IsFixedBodyId(body_id) == body_id = 5

\* rbd_model.mFixedBodies[body_id - fixed_body_discriminator].mMovableParent
mMovableParent(body_id) == 3

\* rbd_model.lambda: the parent of a movable body
lambda == [body_id \in 1 .. 4 |->
             CASE body_id = 1 -> 0
               [] body_id = 2 -> 1
               [] body_id = 3 -> 2
               [] body_id = 4 -> 1]

\* rbd_model.mJoints[body_id].q_index
q_index == [body_id \in 1 .. 4 |-> body_id - 1]

\* isFullyFloatingBase()
isFullyFloatingBase == FALSE

\* getFloatingBaseDoF()
getFloatingBaseDoF == 1

\* getSystemDoF(): the dimension of a generalized state
getSystemDoF == 4

RECURSIVE WalkBranch(_, _, _, _)
\* the do-while loop of getBranch from the body parent_id up to base_id
WalkBranch(parent_id, base_id, pos_idx, num_dof) ==
  IF parent_id = base_id
    THEN [pos_idx |-> pos_idx, num_dof |-> num_dof]
    ELSE WalkBranch(lambda[parent_id], base_id, q_index[parent_id],
                    num_dof + 1)

\* FloatingBaseSystem::getBranch(pos_idx, num_dof, body_name); pos_idx
\* comes in with the value the caller's variable holds and is left as it is
\* when the branch has no joint
getBranch(pos_idx, body_name) ==
  LET body_id == GetBodyId[body_name]
      base_id == IF isFullyFloatingBase THEN 6 ELSE getFloatingBaseDoF
      parent_id == IF IsFixedBodyId(body_id)
                     THEN mMovableParent(body_id)
                     ELSE body_id
  IN WalkBranch(parent_id, base_id, pos_idx, 0)

\* new_joint_state.segment(start, n) = branch_state
WriteSegment(joint_state, start, n, branch_state) ==
  [i \in DOMAIN joint_state |->
     IF start <= i /\ i < start + n
       THEN branch_state[i - start + 1]
       ELSE joint_state[i]]

\* setBranchState without the check of the dimension
setBranchState_Mutant(joint_state, branch_state, body_name, uninitialized) ==
  LET b == getBranch(uninitialized, body_name)
      n == IF Len(branch_state) < b.num_dof
             THEN Len(branch_state)
             ELSE b.num_dof
  IN { [new_joint_state |->
          WriteSegment(joint_state, b.pos_idx, n, branch_state),
        pc |-> "returned"] }

\* FloatingBaseSystem::setBranchState(new_joint_state, branch_state,
\* body_name): the outcomes of the call. q_index is a local that is not
\* initialized and that getBranch does not set for a branch without joint;
\* an empty segment at a position past the end of the vector either does
\* nothing or fails the range check of the vector library
setBranchState(joint_state, branch_state, body_name, uninitialized) ==
  LET b == getBranch(uninitialized, body_name)
  IN IF Len(branch_state) # b.num_dof
       THEN { [new_joint_state |-> joint_state, pc |-> "exited"] }
       ELSE
         { [new_joint_state |->
              WriteSegment(joint_state, b.pos_idx, b.num_dof, branch_state),
            pc |-> "returned"] }
         \cup
         (IF b.pos_idx + b.num_dof > getSystemDoF
            THEN { [new_joint_state |-> joint_state, pc |-> "exited"] }
            ELSE {})

\* the branch states tried: up to three entries
BranchStates == UNION { [1 .. n -> {1, 2}] : n \in 0 .. 3 }

\* ------------------------------------- preview-sequence descriptions
\* a description is a record of its namespaces: state and preview_control
\* map the keys that are present to their values, phase is the sequence of
\* the namespaces phase_0, phase_1, ...
EmptyDescription == [state |-> << >>, preview_control |-> << >>,
                     phase |-> << >>]

\* the part of a namespace with the keys in K
Restrict(ns, K) == [key \in K |-> ns[key]]

\* the keys of preview_sequence.state, with the values tried
StateNamespace == [com_pos |-> Vec(1, 2), com_vel |-> Vec(1, 0), cop |-> 1]

\* the keys of preview_sequence.preview_control.phase_<k>, with the values
\* tried
PhaseNamespace ==
  [duration |-> sample_time_ + 1, cop_shift |-> 1, head_acc |-> 1, LF |-> 1]

\* the phase namespaces tried: a full STANCE phase, one without head_acc,
\* FLIGHT phases with a footstep shift or with head_acc, and a phase
\* without duration
PhaseNamespaces ==
  { Restrict(PhaseNamespace, K) :
      K \in { {"duration", "cop_shift", "head_acc", "LF"},
              {"duration", "cop_shift", "LF"},
              {"duration", "LF"},
              {"duration", "head_acc"},
              {"cop_shift", "head_acc"} } }

\* the descriptions tried: complete in state and number_phase with up to n
\* phases, or lacking one of the keys read before the phases
Descriptions(n) ==
  { [state |-> StateNamespace,
     preview_control |-> [number_phase |-> Len(ph)],
     phase |-> ph] :
      ph \in UNION { [1 .. len -> PhaseNamespaces] : len \in 1 .. n } }
  \cup
  { [state |-> Restrict(StateNamespace, K),
     preview_control |-> [number_phase |-> 1],
     phase |-> << Restrict(PhaseNamespace, {"duration"}) >>] :
      K \in { {"com_vel", "cop"}, {"com_pos", "cop"}, {"com_pos", "com_vel"} } }
  \cup
  { [state |-> StateNamespace,
     preview_control |-> << >>,
     phase |-> << Restrict(PhaseNamespace, {"duration"}) >>] }

\* -------------------------------------------------------------- state
VARIABLES
  eng,        \* the two engine instances, with the locals of the running call
  op,         \* the operation called last: "none", "preview" or "energy"
  state,      \* argument: the initial state of the call
  control,    \* argument: the sequence of PreviewParams
  full,       \* argument: full or summary mode
  ncalls,     \* calls made so far
  yaml,       \* argument: the description handed to readPreviewSequence
  full_state, \* the caller's WholeBodyState object
  full_traj,  \* the caller's WholeBodyTrajectory object
  before,     \* the caller's objects as they were before the last call of
              \* readPreviewSequence or of a converter, with what a read met
  new_joint_state,  \* the caller's joint state given to setBranchState
  branch      \* the last call of setBranchState: its arguments, the joint
              \* state before it and how it ended

\* the objects of the FloatingBaseSystem calls
sys == << new_joint_state, branch >>

\* what the preview and energy operations do not touch
aux == << yaml, full_state, full_traj, before, sys >>

vars == << eng, op, state, control, full, ncalls, aux >>

\* PreviewLocomotion::PreviewLocomotion(): the engine after construction.
\* pc, k, trajectory, actual_state and com_energy are the position and the
\* locals/outputs of the running call; emit, starts, nswing, oob and
\* back_empty record what the call did.
Constructed ==
  [robot_model_ |-> FALSE,
   terrain_ |-> FALSE,
   cart_table_ |-> DefaultCart,
   actual_state_ |-> DefaultState,
   phase_state_ |-> DefaultState,
   swing_params_ |-> [duration |-> 0, feet_shift |-> EmptyMap],
   feet_spline_generator_ |-> EmptyMap,
   pc |-> "idle",
   k |-> 0,
   trajectory |-> << >>,
   actual_state |-> DefaultState,
   com_energy |-> Zero,
   emit |-> << >>,
   starts |-> << >>,
   nswing |-> 0,
   oob |-> FALSE,
   back_empty |-> FALSE]

Init ==
  /\ eng = [i \in Instances |-> Constructed]
  /\ op = "none"
  /\ state = DefaultState
  /\ control = << >>
  /\ full = FALSE
  /\ ncalls = 0
  /\ yaml = EmptyDescription
  /\ full_state = DefaultWholeBodyState
  /\ full_traj = << >>
  /\ new_joint_state = [i \in 0 .. getSystemDoF - 1 |-> 0]
  /\ branch = [pc |-> "none", body_name |-> "", branch_state |-> << >>,
               q_index |-> 0, before |-> << >>]
  /\ before = [state |-> DefaultState, control |-> << >>,
               full_state |-> DefaultWholeBodyState, full_traj |-> << >>,
               fresh |-> STANCE, ok |-> TRUE]

\* an instance is between calls
Returned(e) == e.pc \in {"idle", "done", "crashed"}

\* PreviewLocomotion::resetFromURDFModel
resetFromURDFModel ==
  /\ ncalls = 0
  /\ \A i \in Instances : ~eng[i].robot_model_
  /\ eng' = [i \in Instances |-> [eng[i] EXCEPT !.robot_model_ = TRUE]]
  /\ UNCHANGED << op, state, control, full, ncalls, aux >>

\* PreviewLocomotion::getTerrainMap: the caller registers terrain data
getTerrainMap ==
  /\ ncalls = 0
  /\ \A i \in Instances : eng[i].robot_model_ /\ ~eng[i].terrain_
  /\ eng' = [i \in Instances |-> [eng[i] EXCEPT !.terrain_ = TRUE]]
  /\ UNCHANGED << op, state, control, full, ncalls, aux >>

\* instance 1 goes on as it is, instance 2 is a freshly loaded engine
AtCall(i) ==
  IF i = 1
    THEN eng[1]
    ELSE [Constructed EXCEPT !.robot_model_ = eng[1].robot_model_,
                             !.terrain_ = eng[1].terrain_,
                             !.trajectory = eng[1].trajectory,
                             !.com_energy = eng[1].com_energy]

\* --------------------------------------------------- multiPhasePreview
\* the foothold on nominal flat ground: no terrain height, no drift of the
\* CoM height
foothold_Mutant(e, actual_state, prev_params, name) ==
  LET stance == stance_posture_[name]
      footshift == Vec(getFootShift(prev_params, name), 0)
      planar == VAdd(actual_state.com_pos,
                     fromBaseToWorldFrame(VAdd(stance, footshift),
                                          actual_state.angular_pos))
  IN Vec(planar.x, 0 - (getPendulumHeight + stance.z))

\* the foothold of a foot that swung in the previous phase, as computed in
\* the phase loop
foothold(e, actual_state, prev_params, name) ==
  LET stance == stance_posture_[name]
      footshift == Vec(getFootShift(prev_params, name), 0)
      planar == VAdd(actual_state.com_pos,
                     fromBaseToWorldFrame(VAdd(stance, footshift),
                                          actual_state.angular_pos))
  IN IF e.terrain_
       THEN Vec(planar.x, getTerrainHeight(planar.x))
       ELSE LET comz_shift == actual_state.com_pos.z -
                                e.actual_state_.com_pos.z
                footshift_z == 0 - (getPendulumHeight + stance.z)
            IN Vec(planar.x, footshift_z - comz_shift)

\* the foothold of a foot that swung in the last phase, as computed for
\* the trailing state
end_foothold(e, actual_state, end_control, name) ==
  LET stance == stance_posture_[name]
      footshift == Vec(getFootShift(end_control, name), 0)
      planar == VAdd(actual_state.com_pos,
                     fromBaseToWorldFrame(VAdd(stance, footshift),
                                          actual_state.angular_pos))
  IN IF e.terrain_
       THEN Vec(planar.x, getTerrainHeight(planar.x))
       ELSE LET comz_shift == actual_state.com_pos.z -
                                e.actual_state_.com_pos.z
                footshift_z == 0 - (getPendulumHeight + stance.z)
            IN Vec(planar.x, footshift_z - comz_shift)

\* Committed without the check of the previous phase's duration
Committed_Mutant(prev_params) ==
  { f \in feet_names_ : isSwingFoot(prev_params, f) }

\* the feet whose foothold the start of a phase commits
Committed(prev_params) ==
  { f \in feet_names_ :
      /\ isSwingFoot(prev_params, f)
      /\ prev_params.duration > sample_time_ }

\* the update of the support region at the start of phase kk > 1: for every
\* foot, first the erase of a foot swinging now, then the commitment of a
\* foot that swung in the previous phase
UpdateSupport(e, back, preview_params, prev_params) ==
  IF preview_params.duration > sample_time_
    THEN
      LET erased == { f \in feet_names_ : isSwingFoot(preview_params, f) }
          added == Committed(prev_params)
          region == back.support_region
      IN [back EXCEPT !.support_region =
            [f \in ((DOMAIN region) \ erased) \cup added |->
               IF f \in added
                 THEN foothold(e, back, prev_params, f)
                 ELSE region[f]]]
    ELSE back

\* PhaseStart with the swinging feet erased in the first phase as well
PhaseStart_Mutant(e, kk) ==
  IF kk = 1
    THEN [state EXCEPT !.support_region =
            [f \in (DOMAIN state.support_region) \ control[1].feet |->
               state.support_region[f]]]
    ELSE UpdateSupport(e, e.trajectory[Len(e.trajectory)],
                       control[kk], control[kk - 1])

\* the start state of phase kk (1-based) of the running call
PhaseStart(e, kk) ==
  IF kk = 1
    THEN state
    ELSE UpdateSupport(e, e.trajectory[Len(e.trajectory)],
                       control[kk], control[kk - 1])

\* the preview of one phase
PhasePreview(e, actual_state, preview_params) ==
  IF preview_params.type = STANCE
    THEN stancePreview(e, actual_state, preview_params, full)
    ELSE flightPreview(e, actual_state, preview_params, full)

\* one iteration of the phase loop of multiPhasePreview on one instance.
\* A write past the size the phase trajectory was resized to is undefined:
\* the instance either goes on with the trajectory as resized or crashes.
PhaseStep(e) ==
  LET kk == e.k + 1
      Empty(r) == Len(e.trajectory) + Len(r.trajectory) = 0
      Past(r) == \E w \in r.written : w >= r.size
      Result(actual_state, r) ==
        [r.e EXCEPT
           !.k = kk,
           !.actual_state = actual_state,
           !.trajectory = IF Empty(r)
                            THEN << state >>
                            ELSE e.trajectory \o r.trajectory,
           !.emit = @ \o [i \in 1 .. Len(r.trajectory) |-> kk]
                      \o (IF Empty(r) THEN << 0 >> ELSE << >>),
           !.starts = Append(@, actual_state),
           !.oob = @ \/ Past(r)]
  IN UNION {
       UNION {
         UNION { IF Past(r)
                   THEN { next, [next EXCEPT !.pc = "crashed"] }
                   ELSE { next } :
                 next \in { Result(actual_state, r) } } :
         r \in { PhasePreview(e, actual_state, control[kk]) } } :
       actual_state \in { PhaseStart(e, kk) } }

\* EndCommitted with the duration compared against two sample times
EndCommitted_Mutant(end_control) ==
  { f \in feet_names_ :
      /\ isSwingFoot(end_control, f)
      /\ end_control.duration > 2 * sample_time_ }

\* the feet whose foothold the trailing state commits
EndCommitted(end_control) ==
  { f \in feet_names_ :
      /\ isSwingFoot(end_control, f)
      /\ end_control.duration > sample_time_ }

\* the code after the phase loop, for the values back and end_control that
\* trajectory.back() and control.params.back() gave
PreviewTailFrom(e, back, end_control) ==
  LET added == EndCommitted(end_control)
      region == back.support_region
      actual_state ==
        [back EXCEPT !.support_region =
           [f \in (DOMAIN region) \cup added |->
              IF f \in added
                THEN end_foothold(e, back, end_control, f)
                ELSE region[f]]]
  IN [e EXCEPT
        !.pc = "done",
        !.actual_state = actual_state,
        !.trajectory = Append(@, actual_state),
        !.emit = Append(@, Len(control) + 1)]

\* the code after the phase loop: the trailing state
PreviewTail(e) ==
  PreviewTailFrom(e, e.trajectory[Len(e.trajectory)], control[Len(control)])

\* what back() of an empty vector may give: the read is undefined
UnspecifiedStates == {DefaultState, state}
UnspecifiedParams == SmallParams

\* the code after the phase loop when the control has no phase: the
\* trajectory was cleared and no phase appended to it, so trajectory.back()
\* and control.params.back() read the last element of empty vectors. The
\* instance either crashes or goes on with whatever the reads gave.
EmptyTail(e) ==
  { [e EXCEPT !.pc = "crashed", !.back_empty = TRUE] }
  \cup
  { [PreviewTailFrom(e, back, end_control) EXCEPT !.back_empty = TRUE] :
      back \in UnspecifiedStates, end_control \in UnspecifiedParams }

\* the outcomes of the code after the phase loop
TailOutcomes(e) ==
  IF Len(control) = 0 THEN EmptyTail(e) ELSE { PreviewTail(e) }

\* multiPhasePreview up to the phase loop, on one instance
PreviewEntry(e, st) ==
  IF ~e.robot_model_
    THEN [e EXCEPT !.pc = "done"]
    ELSE [e EXCEPT
            !.pc = "loop",
            !.actual_state_ = st,
            !.trajectory = << >>,
            !.k = 0,
            !.emit = << >>,
            !.starts = << >>,
            !.nswing = 0,
            !.oob = FALSE,
            !.back_empty = FALSE]

\* a call of multiPhasePreview(trajectory, st, ctl, fl)
Call(PrevOp, st, ctl, fl) ==
  /\ \A i \in Instances : Returned(eng[i])
  /\ eng[1].pc # "crashed"
  /\ ncalls' = ncalls + 1
  /\ op' = PrevOp
  /\ state' = st
  /\ control' = ctl
  /\ full' = fl
  /\ UNCHANGED aux

\* PreviewLocomotion::multiPhasePreview, entry (lines 187-205)
multiPhasePreview(states, params) ==
  /\ ncalls < MaxCalls
  /\ \E st \in states, ctl \in Controls(params, MaxPhases), fl \in BOOLEAN :
       /\ Call("preview", st, ctl, fl)
       /\ eng' = [i \in Instances |-> PreviewEntry(AtCall(i), st)]

\* PreviewLocomotion::multiPhasePreview, one phase (lines 206-283)
previewPhase ==
  /\ op = "preview"
  /\ eng[1].pc = "loop"
  /\ eng[1].k < Len(control)
  /\ \E n1 \in PhaseStep(eng[1]),
        n2 \in (IF eng[2].pc = "loop" THEN PhaseStep(eng[2]) ELSE {eng[2]}) :
       eng' = (1 :> n1 @@ 2 :> n2)
  /\ UNCHANGED << op, state, control, full, ncalls, aux >>

\* PreviewLocomotion::multiPhasePreview, the trailing state (lines 285-328)
previewTail ==
  /\ op = "preview"
  /\ eng[1].pc = "loop"
  /\ eng[1].k = Len(control)
  /\ \E n1 \in TailOutcomes(eng[1]),
        n2 \in (IF eng[2].pc = "loop"
                  THEN TailOutcomes(eng[2]) ELSE {eng[2]}) :
       eng' = (1 :> n1 @@ 2 :> n2)
  /\ UNCHANGED << op, state, control, full, ncalls, aux >>

\* one call of multiPhasePreview on a constructed engine
FirstPreview ==
  /\ ncalls = 0
  /\ IF eng[1].robot_model_
       THEN multiPhasePreview(RichStates, RichParams)
       ELSE multiPhasePreview(SmallStates, SmallParams)

Next ==
  \/ resetFromURDFModel
  \/ FirstPreview
  \/ previewPhase
  \/ previewTail

Spec == Init /\ [][Next]_vars

\* multiPhasePreview called on a loaded engine with a control of no phase
emptyPreview ==
  /\ ncalls = 0
  /\ eng[1].robot_model_
  /\ \E st \in RichStates, fl \in BOOLEAN :
       /\ Call("preview", st, << >>, fl)
       /\ eng' = [i \in Instances |-> PreviewEntry(AtCall(i), st)]

\* one call of multiPhasePreview with any control, the empty one included
NextEmpty ==
  \/ resetFromURDFModel
  \/ FirstPreview
  \/ emptyPreview
  \/ previewPhase
  \/ previewTail

SpecEmpty == Init /\ [][NextEmpty]_vars

\* multiPhaseEnergy entered without com_energy.setZero()
EnergyEntry_Mutant(e, st) ==
  IF ~e.robot_model_
    THEN [e EXCEPT !.pc = "done"]
    ELSE [e EXCEPT
            !.pc = "energy",
            !.actual_state_ = st,
            !.actual_state = st,
            !.k = 0,
            !.emit = << >>,
            !.starts = << >>,
            !.nswing = 0,
            !.oob = FALSE]

\* ---------------------------------------------------- multiPhaseEnergy
\* multiPhaseEnergy up to the phase loop, on one instance
EnergyEntry(e, st) ==
  IF ~e.robot_model_
    THEN [e EXCEPT !.pc = "done"]
    ELSE [e EXCEPT
            !.pc = "energy",
            !.actual_state_ = st,
            !.com_energy = Zero,
            !.actual_state = st,
            !.k = 0,
            !.emit = << >>,
            !.starts = << >>,
            !.nswing = 0,
            !.oob = FALSE]

\* one iteration of the phase loop of multiPhaseEnergy on one instance; the
\* call returns after the last one
EnergyStep(e) ==
  LET kk == e.k + 1
      preview_params == control[kk]
      phase_energy ==
        IF preview_params.type = STANCE
          THEN computeSystemEnergy(e.actual_state, preview_params.duration,
                                   preview_params.cop_shift)
          ELSE Zero
      time == e.actual_state.time + preview_params.duration
  IN [e EXCEPT
        !.k = kk,
        !.com_energy = VAdd(@, phase_energy),
        !.starts = Append(@, e.actual_state),
        !.actual_state = computeResponse(e.cart_table_, e.actual_state, time),
        !.pc = IF kk = Len(control) THEN "done" ELSE "energy"]

\* PreviewLocomotion::multiPhaseEnergy, entry (lines 331-348)
multiPhaseEnergy(states, params) ==
  /\ ncalls < MaxCalls
  /\ \E st \in states, ctl \in Controls(params, MaxPhases) :
       /\ Call("energy", st, ctl, FALSE)
       /\ eng' = [i \in Instances |-> EnergyEntry(AtCall(i), st)]

\* PreviewLocomotion::multiPhaseEnergy, one phase (lines 349-370)
energyPhase ==
  /\ op = "energy"
  /\ eng[1].pc = "energy"
  /\ eng' = [i \in Instances |->
               IF eng[i].pc = "energy" THEN EnergyStep(eng[i]) ELSE eng[i]]
  /\ UNCHANGED << op, state, control, full, ncalls, aux >>

\* calls that follow one another on one engine
NextCalls ==
  \/ resetFromURDFModel
  \/ getTerrainMap
  \/ multiPhasePreview(SmallStates, SmallParams)
  \/ multiPhaseEnergy(SmallStates, SmallParams)
  \/ previewPhase
  \/ previewTail
  \/ energyPhase

SpecCalls == Init /\ [][NextCalls]_vars

\* ------------------------------------------------- readPreviewSequence
\* yaml_reader.read(value, key, ns): the key is in the namespace
HasKey(ns, key) == key \in DOMAIN ns

\* a default-constructed PreviewParams whose phase has the given type
FreshParams(type) ==
  [type |-> type, duration |-> 0, cop_shift |-> 0, head_acc |-> 0,
   feet |-> {}, foot_shift |-> EmptyMap]

\* control.params.resize(num_phases): the elements held are kept, the new
\* ones are default-constructed
Resize(params, num_phases, fresh) ==
  [k \in 1 .. num_phases |->
     IF k <= Len(params) THEN params[k] ELSE FreshParams(fresh)]

\* the body of the phase loop of readPreviewSequence on control.params[k]
\* and the namespace phase_k; ok is FALSE when the loop returned from it.
\* feet stands for the swing flags of the phase.
ReadPhase(params, ns) ==
  IF ~HasKey(ns, "duration")
    THEN [params |-> params, ok |-> FALSE]
    ELSE
      LET p1 == [params EXCEPT !.duration = ns.duration]
          p2 == IF HasKey(ns, "cop_shift")
                  THEN [p1 EXCEPT !.cop_shift = ns.cop_shift,
                                  !.type = STANCE]
                  ELSE p1
          swing == { name \in feet_names_ : HasKey(ns, name) }
      IN IF p2.type = STANCE /\ ~HasKey(ns, "head_acc")
           THEN [params |-> p2, ok |-> FALSE]
           ELSE
             [params |->
                [p2 EXCEPT
                   !.head_acc = IF p2.type = STANCE THEN ns.head_acc ELSE @,
                   !.feet = @ \cup swing,
                   !.foot_shift =
                      [name \in (DOMAIN p2.foot_shift) \cup swing |->
                         IF name \in swing
                           THEN ns[name]
                           ELSE p2.foot_shift[name]]],
              ok |-> TRUE]

RECURSIVE ReadPhases(_, _, _)
\* the phase loop of readPreviewSequence from phase k on; a phase_k that
\* the description lacks is an empty namespace
ReadPhases(params, phase, k) ==
  IF k > Len(params)
    THEN [params |-> params, ok |-> TRUE]
    ELSE
      LET r == ReadPhase(params[k],
                         IF k <= Len(phase) THEN phase[k] ELSE << >>)
          read == [params EXCEPT ![k] = r.params]
      IN IF r.ok
           THEN ReadPhases(read, phase, k + 1)
           ELSE [params |-> read, ok |-> FALSE]

\* readPreviewSequence past the check of the robot model: the state keys in
\* the order read, number_phase, the resize and the phase loop
ReadDescription(st, ctl, d, fresh) ==
  LET s1 == IF HasKey(d.state, "com_pos")
              THEN [st EXCEPT !.com_pos = d.state.com_pos]
              ELSE st
      s2 == IF HasKey(d.state, "com_vel")
              THEN [s1 EXCEPT !.com_vel = d.state.com_vel]
              ELSE s1
      s3 == IF HasKey(d.state, "cop")
              THEN [s2 EXCEPT !.cop = d.state.cop]
              ELSE s2
  IN IF ~HasKey(d.state, "com_pos")
       THEN [state |-> st, control |-> ctl, ok |-> FALSE]
     ELSE IF ~HasKey(d.state, "com_vel")
       THEN [state |-> s1, control |-> ctl, ok |-> FALSE]
     ELSE IF ~HasKey(d.state, "cop")
       THEN [state |-> s2, control |-> ctl, ok |-> FALSE]
     ELSE IF ~HasKey(d.preview_control, "number_phase")
       THEN [state |-> s3, control |-> ctl, ok |-> FALSE]
     ELSE
       LET r == ReadPhases(Resize(ctl, d.preview_control.number_phase,
                                  fresh),
                           d.phase, 1)
       IN [state |-> s3, control |-> r.params, ok |-> r.ok]

\* readPreviewSequence without the check of the robot model
ReadSequence_Mutant(e, st, ctl, d, fresh) ==
  ReadDescription(st, ctl, d, fresh)

\* PreviewLocomotion::readPreviewSequence(state, control, filename) on the
\* caller's state and control; ok tells whether the read reached its end,
\* which the operation, returning void, does not hand to its caller
ReadSequence(e, st, ctl, d, fresh) ==
  IF ~e.robot_model_
    THEN [state |-> st, control |-> ctl, ok |-> FALSE]
    ELSE ReadDescription(st, ctl, d, fresh)

\* a call of readPreviewSequence; the type of a default-constructed phase
\* is either one
readPreviewSequence ==
  /\ ncalls < MaxCalls
  /\ \A i \in Instances : Returned(eng[i])
  /\ eng[1].pc # "crashed"
  /\ \E d \in Descriptions(MaxPhases), fresh \in {STANCE, FLIGHT} :
       \E r \in { ReadSequence(eng[1], state, control, d, fresh) } :
         /\ yaml' = d
         /\ before' = [state |-> state, control |-> control,
                       full_state |-> full_state, full_traj |-> full_traj,
                       fresh |-> fresh, ok |-> r.ok]
         /\ state' = r.state
         /\ control' = r.control
  /\ op' = "read"
  /\ ncalls' = ncalls + 1
  /\ UNCHANGED << eng, full, full_state, full_traj, sys >>

\* descriptions read between the other calls
NextRead ==
  \/ resetFromURDFModel
  \/ readPreviewSequence
  \/ multiPhasePreview(SmallStates, SmallParams)
  \/ multiPhaseEnergy(SmallStates, SmallParams)
  \/ previewPhase
  \/ previewTail
  \/ energyPhase

SpecRead == Init /\ [][NextRead]_vars

\* ------------------------------------------------------ StateConverter
\* actual_system_com_: zero after construction, the CoM of the default
\* posture once the model is loaded
actual_system_com_(e) == IF e.robot_model_ THEN Vec(0, 1) ELSE Zero

\* feet_names_ / num_feet_ of an engine: empty until the model is loaded
FeetOf(e) == IF e.robot_model_ THEN feet_names_ ELSE {}

\* the contact conditions that keep what the output held
ContactConditions_Mutant(e, contact, reduced_state) ==
  [name \in (DOMAIN contact) \cup FeetOf(e) |->
     IF name \in DOMAIN contact
       THEN contact[name]
       ELSE name \in DOMAIN reduced_state.support_region]

\* toWholeBodyState, the loop over the feet: setContactCondition(name,
\* name is a key of support_region)
ContactConditions(e, contact, reduced_state) ==
  MapWrite(contact,
           [name \in FeetOf(e) |->
              name \in DOMAIN reduced_state.support_region])

\* PreviewLocomotion::toWholeBodyState(full_state, reduced_state); there is
\* no check of robot_model_
ToWholeBodyState(e, fs, reduced_state) ==
  LET feet_pos == [name \in DOMAIN reduced_state.foot_pos |->
                     VAdd(reduced_state.foot_pos[name],
                          actual_system_com_(e))]
      joint_pos == computeInverseKinematics(feet_pos)
      joint_vel == computeJointVelocity(joint_pos, reduced_state.foot_vel)
  IN [fs EXCEPT
        !.time = reduced_state.time,
        !.base_pos = VSub(reduced_state.com_pos, actual_system_com_(e)),
        !.base_vel = reduced_state.com_vel,
        !.base_acc = reduced_state.com_acc,
        !.base_rpy = reduced_state.angular_pos,
        !.contact_pos = MapWrite(@, feet_pos),
        !.contact_vel = reduced_state.foot_vel,
        !.contact_acc = reduced_state.foot_acc,
        !.contact = ContactConditions(e, @, reduced_state),
        !.joint_pos = joint_pos,
        !.joint_vel = joint_vel,
        !.joint_acc = computeJoinAcceleration(joint_pos, joint_vel,
                                              reduced_state.foot_vel),
        !.joint_eff = << >>]

\* PreviewLocomotion::fromWholeBodyState(reduced_state, full_state); there
\* is no check of robot_model_
FromWholeBodyState(e, reduced_state, fs) ==
  LET active_contacts == getActiveContacts(fs.contact_eff, force_threshold_)
      cop_B == computeCenterOfPressure(fs.contact_eff, fs.contact_pos,
                                       FeetOf(e))
  IN [reduced_state EXCEPT
        !.time = fs.time,
        !.com_pos = getSystemCoM(fs.base_pos, fs.joint_pos),
        !.com_vel = getSystemCoMRate(fs.base_pos, fs.joint_pos,
                                     fs.base_vel, fs.joint_vel),
        !.com_acc = fs.base_acc,
        !.angular_pos = fs.base_rpy,
        !.cop = VAdd(fs.base_pos,
                     fromBaseToWorldFrame(cop_B, fs.base_rpy)).x,
        !.support_region =
           [name \in active_contacts |->
              VAdd(fs.base_pos,
                   fromBaseToWorldFrame(fs.contact_pos[name], fs.base_rpy))],
        !.foot_pos =
           MapWrite(@, [name \in DOMAIN fs.contact_pos |->
                          VSub(fs.contact_pos[name], actual_system_com_(e))]),
        !.foot_vel = fs.contact_vel,
        !.foot_acc = fs.contact_acc]

RECURSIVE ToWholeBodyTrajectory(_, _, _, _)
\* PreviewLocomotion::toWholeBodyTrajectory(full_traj, reduced_traj) from
\* sample k on: one local full_state is converted into for every sample;
\* there is no check of robot_model_
ToWholeBodyTrajectory(e, fs, reduced_traj, k) ==
  IF k > Len(reduced_traj)
    THEN << >>
    ELSE \* the converted state, bound once
      Only({ << next >> \o ToWholeBodyTrajectory(e, next, reduced_traj, k + 1) :
             next \in { ToWholeBodyState(e, fs, reduced_traj[k]) } })

\* the reduced states handed to the converters
ConvStates ==
  { [StartState(s) EXCEPT !.time = 1] : s \in SUBSET feet_names_ }

\* a call of a converter: the caller's objects before it are kept
Convert(name) ==
  /\ ncalls < MaxCalls
  /\ \A i \in Instances : Returned(eng[i])
  /\ eng[1].pc # "crashed"
  /\ op' = name
  /\ ncalls' = ncalls + 1
  /\ before' = [before EXCEPT !.state = state, !.control = control,
                              !.full_state = full_state,
                              !.full_traj = full_traj]
  /\ UNCHANGED << eng, control, full, yaml, sys >>

\* a call toWholeBodyState(full_state, reduced_state)
toWholeBodyState ==
  /\ Convert("toWholeBodyState")
  /\ \E reduced_state \in ConvStates :
       /\ state' = reduced_state
       /\ full_state' = ToWholeBodyState(eng[1], full_state, reduced_state)
  /\ UNCHANGED full_traj

\* a call fromWholeBodyState(state, full_state)
fromWholeBodyState ==
  /\ Convert("fromWholeBodyState")
  /\ \E fs \in { WholeState(active) : active \in SUBSET feet_names_ } :
       /\ full_state' = fs
       /\ state' = FromWholeBodyState(eng[1], state, fs)
  /\ UNCHANGED full_traj

\* a call toWholeBodyTrajectory(full_traj, reduced_traj)
toWholeBodyTrajectory ==
  /\ Convert("toWholeBodyTrajectory")
  /\ \E reduced_traj \in
          UNION { [1 .. len -> ConvStates] : len \in 0 .. MaxPhases } :
       full_traj' = ToWholeBodyTrajectory(eng[1], DefaultWholeBodyState,
                                          reduced_traj, 1)
  /\ UNCHANGED << state, full_state >>

\* the converters on a constructed or loaded engine
NextConvert ==
  \/ resetFromURDFModel
  \/ toWholeBodyState
  \/ fromWholeBodyState
  \/ toWholeBodyTrajectory

SpecConvert == Init /\ [][NextConvert]_vars

\* --------------------------------------------------- setBranchState
\* a call of setBranchState on the caller's joint state, while the process
\* lives
callSetBranchState ==
  /\ branch.pc # "exited"
  /\ \E body_name \in DOMAIN GetBodyId, branch_state \in BranchStates,
        uninitialized \in {0, getSystemDoF + 1} :
       \E r \in setBranchState(new_joint_state, branch_state, body_name,
                                uninitialized) :
         /\ new_joint_state' = r.new_joint_state
         /\ branch' = [pc |-> r.pc, body_name |-> body_name,
                       branch_state |-> branch_state,
                       q_index |-> uninitialized,
                       before |-> new_joint_state]
  /\ UNCHANGED << eng, op, state, control, full, ncalls, yaml, full_state,
                  full_traj, before >>

\* the FloatingBaseSystem on its own
NextBranch == callSetBranchState

SpecBranch == Init /\ [][NextBranch]_vars

\* ===================================================================
\* Properties
\* ===================================================================
\* the engine the claims about one engine read
E == eng[1]

\* number of phases of the control of the running call
N == Len(control)

\* a multiPhasePreview call on a loaded engine is running or has returned
InPreview == op = "preview" /\ E.robot_model_ /\ E.pc \in {"loop", "done"}

\* the call has returned its trajectory
PreviewDone == op = "preview" /\ E.robot_model_ /\ E.pc = "done"

\* the phases previewed so far
Previewed == IF InPreview THEN 1 .. E.k ELSE {}

\* the positions in the trajectory of the states phase kk contributed
PhaseStates(kk) == { i \in 1 .. Len(E.trajectory) : E.emit[i] = kk }

\* the last state phase kk contributed
LastOf(kk) ==
  E.trajectory[CHOOSE i \in PhaseStates(kk) :
                 \A j \in PhaseStates(kk) : j <= i]

\* the last state of the trajectory before phase kk > 1 started
BackBefore(kk) ==
  E.trajectory[Cardinality({ i \in 1 .. Len(E.trajectory) : E.emit[i] < kk })]

\* the last state of the trajectory
Last == E.trajectory[Len(E.trajectory)]

\* C1: every phase whose duration exceeds sample_time ends its samples at
\* the phase's start time plus its duration
C1_LastSampleAtDuration ==
  \A kk \in Previewed :
    control[kk].duration > sample_time_ =>
      /\ PhaseStates(kk) # {}
      /\ LastOf(kk).time = E.starts[kk].time + control[kk].duration

\* C2 (as claimed): the last state of the returned trajectory has every foot
\* the last phase marks as swinging in its support region
C2_FinalFootstepCommitted_Claimed ==
  PreviewDone =>
    \A f \in control[N].feet : f \in DOMAIN Last.support_region

\* C2 (amended): the same, when the last phase's duration exceeds sample_time
C2_FinalFootstepCommitted ==
  (PreviewDone /\ control[N].duration > sample_time_) =>
    \A f \in control[N].feet :
      /\ f \in DOMAIN Last.support_region
      /\ Last.support_region[f] =
           end_foothold(E, E.trajectory[Len(E.trajectory) - 1], control[N], f)

\* C2 witness: the trailing state committed a foot the state before lacked
C2_Witness ==
  /\ PreviewDone
  /\ control[N].duration > sample_time_
  /\ \E f \in control[N].feet :
       /\ f \notin DOMAIN E.trajectory[Len(E.trajectory) - 1].support_region
       /\ f \in DOMAIN Last.support_region

\* C3: one STANCE phase without swinging feet, duration n * sample_time with
\* n >= 2, in full mode: n + 1 states, the last at initial time + duration
C3_SingleStanceLength ==
  (/\ PreviewDone
   /\ full
   /\ N = 1
   /\ control[1].type = STANCE
   /\ control[1].feet = {}
   /\ control[1].duration % sample_time_ = 0
   /\ control[1].duration \div sample_time_ >= 2)
  => /\ Len(E.trajectory) = control[1].duration \div sample_time_ + 1
     /\ Last.time = state.time + control[1].duration

C5_PreviousSwingCommitted ==
  \A kk \in Previewed \ {1} :
    control[kk - 1].duration > sample_time_ =>
      \A i \in PhaseStates(kk), f \in control[kk - 1].feet :
        /\ f \in DOMAIN E.trajectory[i].support_region
        /\ E.trajectory[i].support_region[f] =
             foothold(E, BackBefore(kk), control[kk - 1], f)

\* C6: in full mode a phase whose duration does not exceed sample_time
\* contributes no sample
C6_ShortPhaseNoSamples ==
  (InPreview /\ full) =>
    \A kk \in Previewed :
      control[kk].duration <= sample_time_ => PhaseStates(kk) = {}

\* C7 (as claimed): a foot that swung in a phase k-1 whose duration does not
\* exceed sample_time is committed into the start state of phase k
C7_ShortPhaseCommitted_Claimed ==
  \A kk \in Previewed \ {1} :
    control[kk - 1].duration <= sample_time_ =>
      \A f \in control[kk - 1].feet :
        /\ f \in DOMAIN E.starts[kk].support_region
        /\ E.starts[kk].support_region[f] =
             foothold(E, BackBefore(kk), control[kk - 1], f)

\* C7 (amended): such a foot is not committed: the start state of phase k
\* has it exactly as the last state before has it, unless phase k itself
\* swings it and so removes it
C7_ShortPhaseNotCommitted ==
  \A kk \in Previewed \ {1} :
    control[kk - 1].duration <= sample_time_ =>
      \A f \in control[kk - 1].feet :
        IF control[kk].duration > sample_time_ /\ f \in control[kk].feet
          THEN f \notin DOMAIN E.starts[kk].support_region
          ELSE /\ (f \in DOMAIN E.starts[kk].support_region)
                    <=> (f \in DOMAIN BackBefore(kk).support_region)
               /\ f \in DOMAIN E.starts[kk].support_region =>
                    E.starts[kk].support_region[f] =
                      BackBefore(kk).support_region[f]

\* C7 witness: a short phase swung a foot and the next phase started
\* without it
C7_Witness ==
  /\ InPreview
  /\ E.k >= 2
  /\ control[1].duration <= sample_time_
  /\ control[2].duration > sample_time_
  /\ \E f \in control[1].feet :
       /\ f \notin control[2].feet
       /\ f \notin DOMAIN E.starts[2].support_region

\* C8: in summary mode every phase contributes one state, at the phase start
\* time plus its duration, no swing generator is initialised or evaluated,
\* and the returned trajectory has N + 1 states
C8_SummaryMode ==
  (InPreview /\ ~full) =>
    /\ \A kk \in Previewed :
         /\ Cardinality(PhaseStates(kk)) = 1
         /\ LastOf(kk).time = E.starts[kk].time + control[kk].duration
    /\ E.nswing = 0
    /\ ~E.oob
    /\ E.pc = "done" => Len(E.trajectory) = N + 1

\* C8 witness: a summary preview of two phases with a swinging foot returned
C8_Witness ==
  /\ PreviewDone
  /\ ~full
  /\ N = 2
  /\ control[1].feet # {}
  /\ control[1].type # control[2].type
  /\ Len(E.trajectory) = 3

\* both instances have come to the end of the call
BothEnded == \A i \in Instances : eng[i].pc \in {"done", "crashed"}

\* both instances have returned from the call
BothDone == \A i \in Instances : eng[i].pc = "done"

\* C9: two freshly loaded engines given the same arguments return the same
\* trajectory
C9_FreshEnginesAgree ==
  (op = "preview" /\ ncalls = 1 /\ E.robot_model_ /\ BothEnded) =>
    /\ eng[1].pc = eng[2].pc
    /\ eng[1].trajectory = eng[2].trajectory

\* C10: the output of a call on an engine that served earlier calls is the
\* output of the same call on a freshly loaded engine
C10_NoLeakBetweenCalls ==
  (E.robot_model_ /\ BothDone) =>
    /\ op = "preview" => eng[1].trajectory = eng[2].trajectory
    /\ op = "energy" => eng[1].com_energy = eng[2].com_energy

\* a multiPhaseEnergy call on a loaded engine is running or has returned
InEnergy == op = "energy" /\ E.robot_model_ /\ E.pc \in {"energy", "done"}

\* the energy of phase kk computed on the state the phase started from
PhaseEnergy(kk) ==
  IF control[kk].type = STANCE
    THEN computeSystemEnergy(E.starts[kk], control[kk].duration,
                             control[kk].cop_shift)
    ELSE Zero

RECURSIVE EnergySum(_)
\* the sum of the phase energies of the first kk phases
EnergySum(kk) ==
  IF kk = 0 THEN Zero ELSE VAdd(EnergySum(kk - 1), PhaseEnergy(kk))

\* C11: multiPhaseEnergy returns the sum over the STANCE phases of
\* computeSystemEnergy on the phase's start state, FLIGHT phases add zero,
\* the first phase starts from the initial state and what com_energy held
\* before the call does not count
C11_EnergySum ==
  InEnergy =>
    /\ E.com_energy = EnergySum(E.k)
    /\ E.k >= 1 => E.starts[1] = state
    /\ (E.pc = "done" /\ N = 1 /\ control[1].type = FLIGHT) =>
         E.com_energy = Zero
    /\ (E.pc = "done" /\ N = 1 /\ control[1].type = STANCE) =>
         E.com_energy = computeSystemEnergy(state, control[1].duration,
                                            control[1].cop_shift)

\* C11 witness: a second call returned the energy of a STANCE and a FLIGHT
\* phase
C11_Witness ==
  /\ InEnergy /\ E.pc = "done" /\ ncalls = 2 /\ N = 2
  /\ \E i, j \in 1 .. N : control[i].type = STANCE /\ control[j].type = FLIGHT
  /\ E.com_energy # Zero

\* the state at position i of the trajectory follows projectile motion
\* from the start state of phase kk
Ballistic(kk, i) ==
  LET p0 == E.starts[kk].com_pos
      v0 == E.starts[kk].com_vel
      s == E.trajectory[i]
      t == s.time - E.starts[kk].time
  IN /\ s.com_pos.x = p0.x + v0.x * t
     /\ 2 * (s.com_pos.z - p0.z - v0.z * t) = 0 - gravity_ * t * t
     /\ s.com_vel = Vec(v0.x, v0.z - gravity_ * t)
     /\ s.com_acc = Vec(0, 0 - gravity_)

\* C12: every sample of a FLIGHT phase, at offset t from the phase start
\* (p0, v0), has com_pos = p0 + v0*t + g*t^2/2, com_vel = v0 + g*t and
\* com_acc = g, with g = (0, -gravity_)
C12_FlightProjectile ==
  \A kk \in Previewed :
    control[kk].type = FLIGHT =>
      \A i \in PhaseStates(kk) : Ballistic(kk, i)

\* C12 witness: a FLIGHT phase that started with a non-zero CoM velocity
\* contributed a sample
C12_Witness ==
  \E kk \in Previewed :
    /\ control[kk].type = FLIGHT
    /\ E.starts[kk].com_vel # Zero
    /\ PhaseStates(kk) # {}

\* the fields of the engine proper, without the locals of a running call
Stored(e) ==
  << e.robot_model_, e.terrain_, e.cart_table_, e.actual_state_,
     e.phase_state_, e.swing_params_, e.feet_spline_generator_ >>

\* C13: without a robot model, multiPhasePreview, multiPhaseEnergy and
\* readPreviewSequence return without modifying the trajectory, the energy
\* vector, the state and control read into, or the engine's stored state
C13_UninitializedModel ==
  (~E.robot_model_ /\ op # "none") =>
    /\ Returned(E)
    /\ Stored(E) = Stored(Constructed)
    /\ E.trajectory = Constructed.trajectory
    /\ E.com_energy = Constructed.com_energy
    /\ op = "read" => state = before.state /\ control = before.control

\* C13 witness: an engine without robot model was given a complete
\* description to read into a state and a control that held other values
C13_Witness ==
  /\ ~E.robot_model_ /\ op = "read"
  /\ yaml.state = StateNamespace
  /\ Len(yaml.phase) = 1 /\ DOMAIN yaml.phase[1] = DOMAIN PhaseNamespace
  /\ state.com_pos # yaml.state.com_pos
  /\ Len(control) = 2

\* a readPreviewSequence call on a loaded engine has returned
InRead == op = "read" /\ E.robot_model_

\* the description has every key read before the phases
HasHeader(d) ==
  /\ DOMAIN d.state = DOMAIN StateNamespace
  /\ HasKey(d.preview_control, "number_phase")

\* the description names no footstep shift
NoShift(d) ==
  \A k \in 1 .. Len(d.phase) :
    \A name \in feet_names_ : ~HasKey(d.phase[k], name)

\* C16: a read that met a missing key leaves its caller with something a
\* read that reached its end could not have left; the operation returns
\* void, so what the caller has is the state and the control read into
C16_FailureReported ==
  (InRead /\ ~before.ok) =>
    \A d \in Descriptions(MaxPhases), fresh \in {STANCE, FLIGHT} :
      LET r == ReadDescription(before.state, before.control, d, fresh)
      IN (NoShift(d) /\ r.ok) => << r.state, r.control >> # << state, control >>

\* C17: head_acc is optional, so a description whose phases all have a
\* duration is read to its end, cop_shift makes a phase STANCE and every
\* footstep shift is parsed, also with a STANCE phase without head_acc
C17_HeadAccOptional ==
  ( /\ InRead
    /\ HasHeader(yaml)
    /\ \A k \in 1 .. Len(yaml.phase) : HasKey(yaml.phase[k], "duration")
    /\ \E k \in 1 .. Len(yaml.phase) :
         HasKey(yaml.phase[k], "cop_shift") /\ ~HasKey(yaml.phase[k], "head_acc")
  ) =>
    /\ before.ok
    /\ \A k \in 1 .. Len(yaml.phase) :
         /\ control[k].duration = yaml.phase[k].duration
         /\ HasKey(yaml.phase[k], "cop_shift") => control[k].type = STANCE
         /\ \A name \in feet_names_ :
              HasKey(yaml.phase[k], name) => name \in control[k].feet

\* C18: after a read that reached its end, phase k is STANCE exactly when
\* phase_k has the key cop_shift
C18_StanceIffCopShift ==
  (InRead /\ before.ok) =>
    \A k \in 1 .. Len(control) :
      control[k].type = STANCE <=> HasKey(yaml.phase[k], "cop_shift")

\* the data-model invariant of a ReducedBodyState
WellFormed(s) ==
  /\ DOMAIN s.support_region \subseteq feet_names_
  /\ DOMAIN s.foot_pos = feet_names_
  /\ DOMAIN s.foot_vel = feet_names_
  /\ DOMAIN s.foot_acc = feet_names_

\* C15: if the initial state satisfies the data-model invariant, so does
\* every state of the trajectory of multiPhasePreview
C15_StatesWellFormed ==
  (InPreview /\ WellFormed(state)) =>
    \A i \in 1 .. Len(E.trajectory) : WellFormed(E.trajectory[i])

\* a converter was called last
Converted ==
  op \in {"toWholeBodyState", "fromWholeBodyState", "toWholeBodyTrajectory"}

\* C14: without a robot model the converters toWholeBodyState,
\* fromWholeBodyState and toWholeBodyTrajectory return without touching
\* their output argument
C14_ConvertersGuarded ==
  (~E.robot_model_ /\ Converted) =>
    /\ op = "toWholeBodyState" => full_state = before.full_state
    /\ op = "fromWholeBodyState" => state = before.state
    /\ op = "toWholeBodyTrajectory" => full_traj = before.full_traj

\* C19: toWholeBodyState sets the contact condition of every foot of the
\* robot to whether the foot is a key of support_region, whatever the
\* output held before
C19_ContactFromSupport ==
  (E.robot_model_ /\ op = "toWholeBodyState") =>
    /\ feet_names_ \subseteq DOMAIN full_state.contact
    /\ \A name \in feet_names_ :
         full_state.contact[name] <=> name \in DOMAIN state.support_region

\* C19 witness: toWholeBodyState changed a contact condition that the
\* output held from an earlier conversion
C19_Witness ==
  /\ E.robot_model_ /\ op = "toWholeBodyState"
  /\ \E name \in feet_names_ :
       /\ name \in DOMAIN before.full_state.contact
       /\ before.full_state.contact[name] # full_state.contact[name]

\* the branch of the last setBranchState call
Branch == getBranch(branch.q_index, branch.body_name)

\* C20: setBranchState with a branch_state of another size than the
\* branch's degrees of freedom terminates the process and writes no entry
\* of new_joint_state; with the matching size it writes the branch's
\* segment and nothing else
C20_BranchState ==
  branch.pc # "none" =>
    IF Len(branch.branch_state) # Branch.num_dof
      THEN branch.pc = "exited" /\ new_joint_state = branch.before
      ELSE
        /\ \A i \in DOMAIN new_joint_state :
             (i < Branch.pos_idx \/ i >= Branch.pos_idx + Branch.num_dof) =>
               new_joint_state[i] = branch.before[i]
        /\ branch.pc = "returned" =>
             \A j \in 1 .. Branch.num_dof :
               new_joint_state[Branch.pos_idx + j - 1] = branch.branch_state[j]

\* C20 witness: a call with a wrong size ended the process after a call
\* with the right size wrote the two joints of the leg
C20_Witness ==
  /\ branch.pc = "exited"
  /\ Len(branch.branch_state) # Branch.num_dof
  /\ new_joint_state[1] # 0 /\ new_joint_state[2] # 0
  /\ new_joint_state[0] = 0 /\ new_joint_state[3] = 0

\* phase kk of the running multiPhasePreview call asked the cart-table
\* model for a response: a STANCE phase that was sampled, or a FLIGHT phase
\* sampled in full mode, whose initSwing looks ahead to the terminal state
AskedResponse(kk) ==
  IF control[kk].type = STANCE
    THEN ~(full /\ control[kk].duration < sample_time_)
    ELSE full /\ control[kk].duration >= sample_time_

\* C21: every computeResponse call of a phase follows an initResponse call
\* made for that phase, so when the calls of phase k are over the
\* cart-table model holds the coefficients of phase k's start state and
\* cop_shift
C21_InitBeforeResponse ==
  /\ (InEnergy /\ E.k >= 1) =>
       E.cart_table_ =
         initResponse(E.starts[E.k], control[E.k].cop_shift)
  /\ (InPreview /\ E.k >= 1 /\ AskedResponse(E.k)) =>
       E.cart_table_ =
         initResponse(E.starts[E.k], control[E.k].cop_shift)

\* C22: in a phase k > 0 whose previous phase lasted longer than
\* sample_time, no foot that phase k marks as swinging is in support_region
\* of the phase's start state or of a state the phase emits
C22_SwingFootErased ==
  \A kk \in Previewed :
    (kk > 1 /\ control[kk - 1].duration > sample_time_) =>
      \A name \in feet_names_ :
        isSwingFoot(control[kk], name) =>
          /\ name \notin DOMAIN E.starts[kk].support_region
          /\ \A i \in PhaseStates(kk) :
               name \notin DOMAIN E.trajectory[i].support_region

\* the foothold of a foot with the shift of params, for the state s: the
\* planar point under the rotated stance offset plus shift, at the terrain
\* height there or, without terrain data, on the flat ground corrected by
\* the drift of the CoM height since the initial state of the call
Foothold(s, params, name) ==
  LET offset == fromBaseToWorldFrame(
                  Vec(stance_posture_[name].x + params.foot_shift[name],
                      stance_posture_[name].z),
                  s.angular_pos)
      x == s.com_pos.x + offset.x
  IN IF E.terrain_
       THEN Vec(x, getTerrainHeight(x))
       ELSE Vec(x, 0 - (getPendulumHeight + stance_posture_[name].z)
                     - (s.com_pos.z - state.com_pos.z))

\* C23: every foothold committed at a phase start and in the trailing
\* state is the point Foothold gives for the last state before it
C23_FootholdPosition ==
  /\ \A kk \in Previewed :
       (kk > 1 /\ control[kk].duration > sample_time_) =>
         \A name \in Committed(control[kk - 1]) :
           /\ name \in DOMAIN E.starts[kk].support_region
           /\ E.starts[kk].support_region[name] =
                Foothold(BackBefore(kk), control[kk - 1], name)
  /\ PreviewDone =>
       \A name \in EndCommitted(control[N]) :
         /\ name \in DOMAIN Last.support_region
         /\ Last.support_region[name] =
              Foothold(E.trajectory[Len(E.trajectory) - 1], control[N], name)

\* C23 witness: a foothold was committed at a phase start without terrain
\* data after the CoM height had drifted
C23_Witness ==
  \E kk \in Previewed :
    /\ kk > 1 /\ control[kk].duration > sample_time_
    /\ Committed(control[kk - 1]) # {}
    /\ ~E.terrain_
    /\ BackBefore(kk).com_pos.z # state.com_pos.z

\* a foothold was committed at a phase start from terrain data
C23_TerrainReached ==
  \E kk \in Previewed :
    /\ kk > 1 /\ control[kk].duration > sample_time_
    /\ Committed(control[kk - 1]) # {}
    /\ E.terrain_

\* C24: no sampling loop of stancePreview or flightPreview writes past the
\* end of the phase trajectory it resized
C24_NoWritePastEnd ==
  InPreview => ~E.oob

\* C25: a foot marked as swinging by a phase of duration > sample_time and
\* by no later phase is in the support region of the final state
C25_NoSwungFootLost ==
  PreviewDone =>
    \A j \in 1 .. N :
      control[j].duration > sample_time_ =>
        \A name \in feet_names_ :
          (/\ isSwingFoot(control[j], name)
           /\ \A l \in j + 1 .. N : ~isSwingFoot(control[l], name))
          => name \in DOMAIN Last.support_region

\* the same with STANCE phases only, in summary mode
C25_StanceOnly ==
  (/\ PreviewDone /\ ~full
   /\ \A l \in 1 .. N : control[l].type = STANCE)
  => C25_NoSwungFootLost

RECURSIVE TotalDuration(_)
\* the sum of the durations of the first n phases of the control
TotalDuration(n) ==
  IF n = 0 THEN 0 ELSE TotalDuration(n - 1) + control[n].duration

\* C26: the returned trajectory ends at the initial time plus the sum of
\* the durations of all phases, and its state times never decrease
C26_TimeAdvances ==
  PreviewDone =>
    /\ Last.time = state.time + TotalDuration(N)
    /\ \A i \in 1 .. Len(E.trajectory) - 1 :
         E.trajectory[i].time <= E.trajectory[i + 1].time

\* the same in summary mode
C26_SummaryMode ==
  (PreviewDone /\ ~full) => C26_TimeAdvances

\* the same in full mode without write past the end of a phase trajectory
C26_FullModeDefined ==
  (PreviewDone /\ full /\ ~E.oob) => C26_TimeAdvances

\* the feet the initial state supports and no phase marks as swinging
Untouched ==
  { name \in DOMAIN state.support_region :
      \A l \in 1 .. N : ~isSwingFoot(control[l], name) }

\* C27: a foot of the initial support region that no phase marks as
\* swinging stays in the support region, at its initial position, in every
\* state of the returned trajectory
C27_SupportFrame ==
  PreviewDone =>
    \A name \in Untouched, i \in 1 .. Len(E.trajectory) :
      /\ name \in DOMAIN E.trajectory[i].support_region
      /\ E.trajectory[i].support_region[name] = state.support_region[name]

\* the same for sequences of STANCE phases only
C27_StanceOnly ==
  (PreviewDone /\ \A l \in 1 .. N : control[l].type = STANCE)
    => C27_SupportFrame

\* the same in the absence of a write past the end of a phase trajectory
C27_Defined ==
  (PreviewDone /\ ~E.oob) => C27_SupportFrame

\* C28: a multiPhasePreview call on a loaded engine never takes back() of
\* an empty trajectory or of an empty control.params, and after every
\* phase the accumulated trajectory is non-empty
C28_NoBackOfEmpty ==
  (op = "preview" /\ E.robot_model_) =>
    /\ ~E.back_empty
    /\ (E.pc \in {"loop", "done"} /\ E.k >= 1) => Len(E.trajectory) >= 1

\* the second half alone: after every phase the trajectory is non-empty
C28_NonEmptyAfterPhase ==
  (InPreview /\ E.k >= 1) => Len(E.trajectory) >= 1

====
